---- MODULE Spec2Model ----
(***************************************************************************)
(* Model of the MTB-UNI v4 firmware main file (src/src/main.c, the         *)
(* revision that starts at line 197): the MTBbus command dispatcher        *)
(* mtbbus_received, the change-notification tracker inside it, the         *)
(* initialization gate, the button handling and the bus-speed autodetect.  *)
(*                                                                         *)
(* The globals of main.c (and the globals of the transport, configuration  *)
(* and input modules that main.c reads and writes) are the fields of the   *)
(* record  m.  pc  is the position of the main loop.  The timer-3          *)
(* interrupt may fire between any two steps of the main loop.              *)
(*                                                                         *)
(* Not modelled: the LED counters and leds_update (indication only), the   *)
(* S-COM generator, diag_update, the watchdog, t3_elapsed and the          *)
(* 10 ms section of the main loop that only calls those collaborators.     *)
(***************************************************************************)
EXTENDS Integers, Sequences, FiniteSets, TLC

---------------------------------------------------------------------------
(* Program constants *)

INIT_TIME == 50
MTBBUS_TIMEOUT_MAX == 100
BTN_PRESS_1S == 100
MTBBUS_AUTO_SPEED_TIMEOUT == 20
\* 0xFF: the "already fired" mark of _init_counter and btn_press_time, and
\* the start value of mtbbus_warn_flags_old
U8_FF == 255
\* io.h is not among the sources; 24 = NO_OUTPUTS + NO_INPUTS/2 (line 553)
\* and 25 = 1 + 24 (line 563)
NO_OUTPUTS == 16
NO_INPUTS == 16
SET_CONFIG_MIN_LEN == 24
SET_OUTPUT_MIN_LEN == 4
\* "relies on first speed 38400 kBd = 0x01" (line 701)
MTBBUS_SPEED_38400 == 1
\* mtbbus.h is not among the sources: four contiguous speeds
MTBBUS_SPEED_MAX == 4
MTBBUS_ERROR_UNKNOWN_COMMAND == 1
MTBBUS_ERROR_UNSUPPORTED_COMMAND == 2
\* diagnostic value indices (mtbbus.h)
MTBBUS_DV_VERSION == 0
MTBBUS_DV_STATE == 1
MTBBUS_DV_UPTIME == 2
MTBBUS_DV_WARNINGS == 17
MTBBUS_DV_VMCU == 32
MTBBUS_DV_MTBBUS_RECEIVED == 128
MTBBUS_DV_MTBBUS_BAD_CRC == 129
MTBBUS_DV_MTBBUS_SENT == 130
MTBBUS_DV_MTBBUS_UNSENT == 131
\* sizeof(uptime_seconds), sizeof(mtbbus_diag.<counter>)
SIZEOF_COUNTER == 4
\* the bit of mtbbus_warn_flags.bits.missed_timer
WARN_MISSED_TIMER == 8

Speeds == MTBBUS_SPEED_38400 .. MTBBUS_SPEED_MAX

Commands ==
  { "MODULE_INQUIRY", "INFO_REQ", "SET_CONFIG", "GET_CONFIG", "BEACON",
    "GET_INPUT", "SET_OUTPUT", "RESET_OUTPUTS", "CHANGE_ADDR", "CHANGE_SPEED",
    "FWUPGD_REQUEST", "REBOOT", "DIAG_VALUE_REQ" }

\* a command code no case of the switch names
UNKNOWN_CMD == "UNKNOWN"

---------------------------------------------------------------------------
(* Bounds of the model *)

\* ticks the bus may stay silent after an accepted frame in the
\* specifications whose master keeps polling
MaxIdleTicks == 2

---------------------------------------------------------------------------
(* Bytes and payloads *)

Hi(x) == (x \div 256) % 256
Lo(x) == x % 256
Bit0(b) == (b % 2) = 1
SubSeqFrom(s, from, n) == [i \in 1 .. n |-> s[from + i - 1]]
Zeros(n) == [i \in 1 .. n |-> 0]

\* a payload of len bytes: first byte b0, the others fill
Payload(len, b0, fill) == [i \in 1 .. len |-> IF i = 1 THEN b0 ELSE fill]

Req(broadcast, command_code, data) ==
  [broadcast |-> broadcast, command_code |-> command_code, data |-> data]

\* mtbbus_output_buf: [0] the length, [1] the response code, [2..] the data
Frame(len, code, data) == [len |-> len, code |-> code, data |-> data]

---------------------------------------------------------------------------
(* The transport's send primitive and the response builders (lines 657-676) *)

\* the dispatch context: the globals, the output buffer, the frames handed
\* to the transport so far and the order of sends and effects
Ctx(g) == [m |-> g, buf |-> Frame(0, "NONE", <<>>), sent |-> <<>>, log |-> <<>>]

Note(c, what) == [c EXCEPT !.log = Append(@, what)]

\* hands mtbbus_output_buf, of the length its first byte gives, to the
\* transport
mtbbus_send_buf_autolen(c) ==
  [c EXCEPT !.sent = Append(@, c.buf), !.log = Append(@, "send")]

mtbbus_send_ack(c) ==
  mtbbus_send_buf_autolen([c EXCEPT !.buf = Frame(1, "ACK", <<>>)])

\* mutant: the two bytes of the snapshot are swapped
mtbbus_send_inputs_swapped(c, message_code) ==
  mtbbus_send_buf_autolen(
    [c EXCEPT !.buf = Frame(3, message_code,
                            <<Lo(c.m.inputs_logic_state), Hi(c.m.inputs_logic_state)>>)])

mtbbus_send_inputs(c, message_code) ==
  mtbbus_send_buf_autolen(
    [c EXCEPT !.buf = Frame(3, message_code,
                            <<Hi(c.m.inputs_logic_state), Lo(c.m.inputs_logic_state)>>)])

mtbbus_send_error(c, code) ==
  mtbbus_send_buf_autolen([c EXCEPT !.buf = Frame(2, "ERROR", <<code>>)])

\* never returns: the watchdog resets the processor
goto_bootloader(c) ==
  Note([c EXCEPT !.m.halted = TRUE], "goto_bootloader")

---------------------------------------------------------------------------
(* Bus-speed autodetection (lines 692-725) *)

\* mutant: the test of the liveness timeout is <= instead of <
mtbbus_addressed_inclusive(g) == g.mtbbus_timeout <= MTBBUS_TIMEOUT_MAX

mtbbus_addressed(g) == g.mtbbus_timeout < MTBBUS_TIMEOUT_MAX

\* the transport's speed switch
mtbbus_set_speed(g, speed) == [g EXCEPT !.mtbbus_speed = speed]

\* mutant: the wrap-around test is >= instead of >
mtbbus_auto_speed_next_early_wrap(g) ==
  LET inc == (g.mtbbus_auto_speed_last + 1) % 256
      nxt == IF inc >= MTBBUS_SPEED_MAX THEN MTBBUS_SPEED_38400 ELSE inc
  IN mtbbus_set_speed([g EXCEPT !.mtbbus_auto_speed_timer = 0,
                                !.mtbbus_auto_speed_last = nxt], nxt)

mtbbus_auto_speed_next(g) ==
  LET inc == (g.mtbbus_auto_speed_last + 1) % 256
      nxt == IF inc > MTBBUS_SPEED_MAX THEN MTBBUS_SPEED_38400 ELSE inc
  IN mtbbus_set_speed([g EXCEPT !.mtbbus_auto_speed_timer = 0,
                                !.mtbbus_auto_speed_last = nxt], nxt)

autodetect_mtbbus_speed(g) ==
  mtbbus_auto_speed_next([g EXCEPT !.mtbbus_auto_speed_in_progress = TRUE,
                                   !.mtbbus_auto_speed_last = 0])

\* mutant: the speed found is stored but never marked for saving
mtbbus_auto_speed_received_not_dirty(g) ==
  [g EXCEPT !.mtbbus_auto_speed_in_progress = FALSE,
            !.config_mtbbus_speed = g.mtbbus_speed]

mtbbus_auto_speed_received(g) ==
  [g EXCEPT !.mtbbus_auto_speed_in_progress = FALSE,
            !.config_mtbbus_speed = g.mtbbus_speed,
            !.config_write = TRUE]

autodetect_mtbbus_speed_stop(g) ==
  IF g.mtbbus_auto_speed_in_progress
  THEN [g EXCEPT !.mtbbus_auto_speed_in_progress = FALSE]
  ELSE g

---------------------------------------------------------------------------
(* Diagnostic values (lines 729-787) *)

WarnSummary(g) == IF g.mtbbus_warn_flags > 0 THEN 1 ELSE 0

\* mutant: a diagnostic read never touches the last-reported warnings
send_diag_value_unacknowledged(c, i) ==
  mtbbus_send_buf_autolen([c EXCEPT !.buf = Frame(2, "DIAG_VALUE", <<i>>)])

send_diag_value(c, i) ==
  LET g == c.m
      reported == [c EXCEPT !.m.mtbbus_warn_flags_old = g.mtbbus_warn_flags]
      counter == Frame(2 + SIZEOF_COUNTER, "DIAG_VALUE", <<i>> \o Zeros(SIZEOF_COUNTER))
  IN CASE i = MTBBUS_DV_VERSION ->
            mtbbus_send_buf_autolen([c EXCEPT !.buf = Frame(3, "DIAG_VALUE", <<i, 16>>)])
       [] i = MTBBUS_DV_STATE ->
            mtbbus_send_buf_autolen(
              [c EXCEPT !.buf = Frame(3, "DIAG_VALUE", <<i, WarnSummary(g) * 2>>)])
       [] i = MTBBUS_DV_UPTIME ->
            mtbbus_send_buf_autolen([c EXCEPT !.buf = counter])
       [] i = MTBBUS_DV_WARNINGS ->
            mtbbus_send_buf_autolen(
              [reported EXCEPT !.buf = Frame(3, "DIAG_VALUE", <<i, g.mtbbus_warn_flags>>)])
       [] i = MTBBUS_DV_VMCU ->
            \* vcc_voltage is a sample of the voltage sensor; it stands as 0
            mtbbus_send_buf_autolen([c EXCEPT !.buf = Frame(4, "DIAG_VALUE", <<i, 0, 0>>)])
       [] i \in { MTBBUS_DV_MTBBUS_RECEIVED, MTBBUS_DV_MTBBUS_BAD_CRC,
                  MTBBUS_DV_MTBBUS_SENT, MTBBUS_DV_MTBBUS_UNSENT } ->
            mtbbus_send_buf_autolen([c EXCEPT !.buf = counter])
       [] OTHER ->
            mtbbus_send_buf_autolen([reported EXCEPT !.buf = Frame(2, "DIAG_VALUE", <<i>>)])

---------------------------------------------------------------------------
(* The command dispatcher (lines 492-651) *)

\* mutant: a rejected request is never answered
invalid_msg_silent(c, broadcast) == c

\* INVALID_MSG / default (lines 645-648)
invalid_msg(c, broadcast) ==
  IF ~broadcast THEN mtbbus_send_error(c, MTBBUS_ERROR_UNKNOWN_COMMAND) ELSE c

\* mutant: a diagnostic push is repeated whatever the master acknowledges
module_inquiry_repush(c, data) ==
  LET g == c.m
      last_ok == Bit0(data[1])
  IN IF \/ g.inputs_logic_state # g.inputs_old
        \/ (g.last_input_changed /\ ~last_ok)
        \/ g.first_scan
     THEN LET c1 == mtbbus_send_inputs(
                      [c EXCEPT !.m.last_input_changed = TRUE, !.m.first_scan = FALSE],
                      "INPUT_CHANGED")
          IN [c1 EXCEPT !.m.inputs_old = g.inputs_logic_state]
     ELSE IF \/ g.mtbbus_warn_flags # g.mtbbus_warn_flags_old
             \/ g.last_diag_changed
          THEN send_diag_value(
                 [c EXCEPT !.m.last_input_changed = FALSE,
                           !.m.last_diag_changed = TRUE,
                           !.m.mtbbus_warn_flags_old = g.mtbbus_warn_flags],
                 MTBBUS_DV_STATE)
          ELSE mtbbus_send_ack([c EXCEPT !.m.last_input_changed = FALSE])

\* the change-notification tracker (lines 511-531)
module_inquiry(c, data) ==
  LET g == c.m
      last_ok == Bit0(data[1])
  IN IF \/ g.inputs_logic_state # g.inputs_old
        \/ (g.last_input_changed /\ ~last_ok)
        \/ g.first_scan
     THEN LET c1 == mtbbus_send_inputs(
                      [c EXCEPT !.m.last_input_changed = TRUE, !.m.first_scan = FALSE],
                      "INPUT_CHANGED")
          IN [c1 EXCEPT !.m.inputs_old = g.inputs_logic_state]
     ELSE IF \/ g.mtbbus_warn_flags # g.mtbbus_warn_flags_old
             \/ (g.last_diag_changed /\ ~last_ok)
          THEN send_diag_value(
                 [c EXCEPT !.m.last_input_changed = FALSE,
                           !.m.last_diag_changed = TRUE,
                           !.m.mtbbus_warn_flags_old = g.mtbbus_warn_flags],
                 MTBBUS_DV_STATE)
          ELSE mtbbus_send_ack([c EXCEPT !.m.last_input_changed = FALSE])

cmd_module_inquiry(c, broadcast, data) ==
  IF (~broadcast) /\ Len(data) >= 1
  THEN module_inquiry(c, data)
  ELSE invalid_msg(c, broadcast)

\* module type, firmware, protocol and bootloader versions are constants of
\* config.h, which is not among the sources; they stand as 0
cmd_info_req(c, broadcast, data) ==
  IF ~broadcast
  THEN mtbbus_send_buf_autolen(
         [c EXCEPT !.buf = Frame(9, "MODULE_INFO",
                                 <<0, WarnSummary(c.m) * 4, 0, 0, 0, 0, 0, 0>>)])
  ELSE invalid_msg(c, broadcast)

\* mutant: the configuration is marked dirty before the request is validated
cmd_set_config_dirty_first(c, broadcast, data) ==
  IF Len(data) >= SET_CONFIG_MIN_LEN /\ ~broadcast
  THEN LET c1 == mtbbus_send_ack(c)
       IN Note([c1 EXCEPT
                  !.m.config_safe_state = SubSeqFrom(data, 1, NO_OUTPUTS),
                  !.m.config_inputs_delay = SubSeqFrom(data, NO_OUTPUTS + 1, NO_INPUTS \div 2),
                  !.m.config_write = TRUE], "set_config")
  ELSE invalid_msg([c EXCEPT !.m.config_write = TRUE], broadcast)

cmd_set_config(c, broadcast, data) ==
  IF Len(data) >= SET_CONFIG_MIN_LEN /\ ~broadcast
  THEN LET c1 == mtbbus_send_ack(c)
       IN Note([c1 EXCEPT
                  !.m.config_safe_state = SubSeqFrom(data, 1, NO_OUTPUTS),
                  !.m.config_inputs_delay = SubSeqFrom(data, NO_OUTPUTS + 1, NO_INPUTS \div 2),
                  !.m.config_write = TRUE], "set_config")
  ELSE invalid_msg(c, broadcast)

cmd_get_config(c, broadcast, data) ==
  IF ~broadcast
  THEN mtbbus_send_buf_autolen(
         [c EXCEPT !.buf = Frame(25, "MODULE_CONFIG",
                                 c.m.config_safe_state \o c.m.config_inputs_delay)])
  ELSE invalid_msg(c, broadcast)

\* mutant: the beacon is set but a unicast request is not acknowledged
cmd_beacon_noack(c, broadcast, data) ==
  IF Len(data) >= 1
  THEN Note([c EXCEPT !.m.beacon = (data[1] # 0)], "beacon")
  ELSE invalid_msg(c, broadcast)

cmd_beacon(c, broadcast, data) ==
  IF Len(data) >= 1
  THEN LET c1 == Note([c EXCEPT !.m.beacon = (data[1] # 0)], "beacon")
       IN IF ~broadcast THEN mtbbus_send_ack(c1) ELSE c1
  ELSE invalid_msg(c, broadcast)

cmd_get_input(c, broadcast, data) ==
  IF ~broadcast
  THEN mtbbus_send_inputs(c, "INPUT_STATE")
  ELSE invalid_msg(c, broadcast)

cmd_set_output(c, broadcast, data) ==
  IF Len(data) >= SET_OUTPUT_MIN_LEN /\ ~broadcast
  THEN LET c1 == mtbbus_send_buf_autolen(
                   [c EXCEPT !.buf = Frame((Len(data) + 1) % 256, "OUTPUT_SET", data)])
       IN Note([c1 EXCEPT !.m.outputs = [kind |-> "zipped", arg |-> data]],
               "outputs_set_zipped")
  ELSE invalid_msg(c, broadcast)

cmd_reset_outputs(c, broadcast, data) ==
  LET c1 == IF ~broadcast THEN mtbbus_send_ack(c) ELSE c
  IN Note([c1 EXCEPT !.m.outputs = [kind |-> "full", arg |-> c.m.config_safe_state]],
          "outputs_set_full")

\* mutant: the address is changed as the request asks
cmd_change_addr_applies(c, broadcast, data) ==
  IF Len(data) >= 1 /\ ~broadcast
  THEN mtbbus_send_ack([c EXCEPT !.m.mtbbus_addr = data[1]])
  ELSE invalid_msg(c, broadcast)

cmd_change_addr(c, broadcast, data) ==
  IF Len(data) >= 1 /\ ~broadcast
  THEN mtbbus_send_error(c, MTBBUS_ERROR_UNSUPPORTED_COMMAND)
  ELSE invalid_msg(c, broadcast)

cmd_change_speed(c, broadcast, data) ==
  IF Len(data) >= 1
  THEN LET g1 == [c.m EXCEPT !.config_mtbbus_speed = data[1], !.config_write = TRUE]
           c1 == Note([c EXCEPT !.m = mtbbus_set_speed(g1, data[1])], "change_speed")
       IN IF ~broadcast THEN mtbbus_send_ack(c1) ELSE c1
  ELSE invalid_msg(c, broadcast)

cmd_fwupgd_request(c, broadcast, data) ==
  IF Len(data) >= 1 /\ ~broadcast
  THEN mtbbus_send_ack(
         Note([c EXCEPT !.m.boot_fwupgd = TRUE,
                        !.m.mtbbus_on_sent = "goto_bootloader"], "config_boot_fwupgd"))
  ELSE invalid_msg(c, broadcast)

\* mutant: the reboot is invoked inside the dispatch
cmd_reboot_immediate(c, broadcast, data) ==
  IF broadcast
  THEN goto_bootloader(c)
  ELSE goto_bootloader(mtbbus_send_ack(c))

cmd_reboot(c, broadcast, data) ==
  IF broadcast
  THEN goto_bootloader(c)
  ELSE mtbbus_send_ack([c EXCEPT !.m.mtbbus_on_sent = "goto_bootloader"])

cmd_diag_value_req(c, broadcast, data) ==
  IF Len(data) >= 1
  THEN send_diag_value(c, data[1])
  ELSE invalid_msg(c, broadcast)

\* the switch over command_code (line 507)
dispatch(c, broadcast, command_code, data) ==
  CASE command_code = "MODULE_INQUIRY" -> cmd_module_inquiry(c, broadcast, data)
    [] command_code = "INFO_REQ" -> cmd_info_req(c, broadcast, data)
    [] command_code = "SET_CONFIG" -> cmd_set_config(c, broadcast, data)
    [] command_code = "GET_CONFIG" -> cmd_get_config(c, broadcast, data)
    [] command_code = "BEACON" -> cmd_beacon(c, broadcast, data)
    [] command_code = "GET_INPUT" -> cmd_get_input(c, broadcast, data)
    [] command_code = "SET_OUTPUT" -> cmd_set_output(c, broadcast, data)
    [] command_code = "RESET_OUTPUTS" -> cmd_reset_outputs(c, broadcast, data)
    [] command_code = "CHANGE_ADDR" -> cmd_change_addr(c, broadcast, data)
    [] command_code = "CHANGE_SPEED" -> cmd_change_speed(c, broadcast, data)
    [] command_code = "FWUPGD_REQUEST" -> cmd_fwupgd_request(c, broadcast, data)
    [] command_code = "REBOOT" -> cmd_reboot(c, broadcast, data)
    [] command_code = "DIAG_VALUE_REQ" -> cmd_diag_value_req(c, broadcast, data)
    [] OTHER -> invalid_msg(c, broadcast)

\* mutant: the gate reads the tick counter instead of the ready flag
init_gate_by_counter(g) == g.init_counter < INIT_TIME

\* lines 493-494: nothing is done before on_initialized
init_gate(g) == ~g.initialized

\* lines 503-505
auto_speed_on_receive(g) ==
  LET g1 == [g EXCEPT !.mtbbus_timeout = 0]
  IN IF g1.mtbbus_auto_speed_in_progress THEN mtbbus_auto_speed_received(g1) ELSE g1

mtbbus_received(g, broadcast, command_code, data) ==
  IF init_gate(g)
  THEN Ctx(g)
  ELSE dispatch(Ctx(auto_speed_on_receive(g)), broadcast, command_code, data)

---------------------------------------------------------------------------
(* State *)

\* m:    the globals (see InitGlobals)
\* pc:   the position of the main loop (lines 290-335)
\* last: what the latest mtbbus_update did: no frame, or the request
\*       dispatched with the globals before and after, the frames handed
\*       to the transport, the order of sends and effects, the output
\*       buffer, and whether the transport could accept output
\* hist: history of the change-notification tracker: the response to the
\*       latest answered inquiry and whether the inputs or the warnings
\*       changed since, and whether a state push is sent and not
\*       confirmed; of the bus: ticks since the dispatcher accepted a
\*       frame (counted up to MTBBUS_TIMEOUT_MAX, where it starts); and of
\*       the initialization gate: ticks so far
\*       (counted up to INIT_TIME) and calls of on_initialized (up to 2);
\*       and of the autodetection: whether it wrapped from the maximum
\*       speed back to the minimum
\* btn:  history of the current button hold: whether btn_press_time reached
\*       BTN_PRESS_1S, the short and long presses fired for it (up to 2)
\*       and the indicators its short press touched
VARIABLES m, pc, last, hist, btn

vars == <<m, pc, last, hist, btn>>

NoFrame == [valid |-> FALSE]
NoResp == Frame(0, "NONE", <<>>)

\* after init() (lines 338-383); config_load gives the persisted speed, the
\* strap gives the address, the reset flags give the warnings
InitGlobals(speed, addr, warn) ==
  [ initialized |-> FALSE,
    init_counter |-> 0,                          \* _init_counter
    mtbbus_timeout |-> MTBBUS_TIMEOUT_MAX,
    btn_pressed |-> FALSE,
    btn_press_time |-> 0,
    mtbbus_auto_speed_in_progress |-> FALSE,
    mtbbus_auto_speed_timer |-> 0,
    mtbbus_auto_speed_last |-> 0,
    mtbbus_speed |-> speed,
    config_mtbbus_speed |-> speed,
    config_write |-> FALSE,
    config_safe_state |-> Zeros(NO_OUTPUTS),
    config_inputs_delay |-> Zeros(NO_INPUTS \div 2),
    inputs_logic_state |-> 0,
    inputs_old |-> 0,
    mtbbus_warn_flags |-> warn,
    mtbbus_warn_flags_old |-> U8_FF,
    last_input_changed |-> FALSE,
    last_diag_changed |-> FALSE,
    first_scan |-> TRUE,
    beacon |-> FALSE,
    outputs |-> [kind |-> "full", arg |-> Zeros(NO_OUTPUTS)],
    mtbbus_addr |-> addr,
    addr_zero |-> (addr = 0),                    \* error_flags.bits.addr_zero
    mtbbus_on_sent |-> "none",
    boot_fwupgd |-> FALSE,
    halted |-> FALSE ]

InitWith(speedSet, addrSet, warnSet) ==
  /\ \E speed \in speedSet, addr \in addrSet, warn \in warnSet :
       m = InitGlobals(speed, addr, warn)
  /\ pc = "update"
  /\ last = NoFrame
  /\ hist = [prev |-> NoResp, in_changed |-> FALSE, warn_changed |-> FALSE,
             push_pending |-> FALSE, silent |-> MTBBUS_TIMEOUT_MAX,
             ticks |-> 0, fired |-> 0, wrapped |-> FALSE]
  /\ btn = [phase |-> "idle", reached |-> FALSE, shorts |-> 0, longs |-> 0,
            leds |-> <<>>]

Inc(x, max) == IF x < max THEN x + 1 ELSE x
SetBit(w, bit) == IF (w \div bit) % 2 = 1 THEN w ELSE w + bit

---------------------------------------------------------------------------
(* ISR(TIMER3_COMPA_vect) (lines 397-418); missed: the timer-1 counter     *)
(* shows that a timer-1 deadline was missed                                *)

timer3_isr(g, missed) ==
  [g EXCEPT
     !.mtbbus_warn_flags = IF missed THEN SetBit(@, WARN_MISSED_TIMER) ELSE @,
     !.init_counter = IF @ < INIT_TIME THEN @ + 1 ELSE @,
     !.mtbbus_timeout = IF @ < MTBBUS_TIMEOUT_MAX THEN @ + 1 ELSE @,
     !.btn_press_time = IF g.btn_pressed /\ @ < BTN_PRESS_1S THEN @ + 1 ELSE @,
     !.mtbbus_auto_speed_timer =
        IF g.mtbbus_auto_speed_in_progress /\ @ < MTBBUS_AUTO_SPEED_TIMEOUT
        THEN @ + 1 ELSE @]

TIMER3_COMPA(missed) ==
  /\ ~m.halted
  /\ m' = timer3_isr(m, missed)
  /\ hist' = [hist EXCEPT
                !.ticks = Inc(@, INIT_TIME),
                !.silent = Inc(@, MTBBUS_TIMEOUT_MAX),
                !.warn_changed = @ \/ m'.mtbbus_warn_flags # m.mtbbus_warn_flags]
  /\ btn' = [btn EXCEPT
               !.reached = @ \/ (m'.btn_press_time = BTN_PRESS_1S
                                 /\ m.btn_press_time # BTN_PRESS_1S)]
  /\ UNCHANGED <<pc, last>>

---------------------------------------------------------------------------
(* The main loop (lines 290-335) *)

\* mtbbus_update (line 291) with no frame waiting
MtbbusIdle ==
  /\ ~m.halted /\ pc = "update"
  /\ pc' = "debounce"
  /\ last' = NoFrame
  /\ UNCHANGED <<m, hist, btn>>

\* whether a state push is sent and not confirmed, after inquiry r is
\* answered with resp: a push is pending once sent; the "received" bit of
\* the inquiry that follows it confirms it; the "received" bit of an inquiry
\* that follows another answer confirms that answer, not the push
PushPending(h, r, resp) ==
  IF resp.code = "DIAG_VALUE" THEN TRUE
  ELSE IF h.prev.code = "DIAG_VALUE" /\ Bit0(r.data[1]) THEN FALSE
  ELSE h.push_pending

TrackerRuns(g, r) ==
  /\ g.initialized
  /\ r.command_code = "MODULE_INQUIRY" /\ ~r.broadcast /\ Len(r.data) >= 1

\* mtbbus_update (line 291) with a valid frame waiting: the transport calls
\* mtbbus_on_receive = mtbbus_received
\* busy: mtbbus_can_fill_output_buf() is false, the transport still holds
\* a response; the dispatch does not ask
Receive(r, busy) ==
  /\ ~m.halted /\ pc = "update"
  /\ LET c == mtbbus_received(m, r.broadcast, r.command_code, r.data)
     IN /\ m' = c.m
        /\ last' = [valid |-> TRUE, req |-> r, pre |-> m, post |-> c.m,
                    sent |-> c.sent, log |-> c.log, hist |-> hist,
                    buf |-> c.buf, busy |-> busy]
        /\ hist' = IF TrackerRuns(m, r)
                   THEN [hist EXCEPT !.prev = c.sent[1],
                                     !.in_changed = FALSE, !.warn_changed = FALSE,
                                     !.push_pending = PushPending(hist, r, c.sent[1]),
                                     !.silent = 0]
                   ELSE IF m.initialized THEN [hist EXCEPT !.silent = 0]
                   ELSE hist
  /\ pc' = "debounce"
  /\ UNCHANGED btn

MtbbusReceive(r) == Receive(r, FALSE)

\* mtbbus_update with a valid frame waiting while the transport cannot
\* accept output
MtbbusReceiveBusy(r) == Receive(r, TRUE)

\* the transport has sent the response and calls mtbbus_on_sent
SentComplete ==
  /\ ~m.halted /\ m.mtbbus_on_sent = "goto_bootloader"
  /\ m' = goto_bootloader(Ctx(m)).m
  /\ UNCHANGED <<pc, last, hist, btn>>

\* inputs_debounce_update (lines 293-296): nothing changes
DebounceIdle ==
  /\ ~m.halted /\ pc = "debounce"
  /\ pc' = "config"
  /\ last' = NoFrame
  /\ UNCHANGED <<m, hist, btn>>

\* inputs_debounce_update: the debounced input snapshot becomes v
InputsChange(v) ==
  /\ ~m.halted /\ pc = "debounce"
  /\ v # m.inputs_logic_state
  /\ m' = [m EXCEPT !.inputs_logic_state = v]
  /\ hist' = [hist EXCEPT !.in_changed = TRUE]
  /\ pc' = "config"
  /\ last' = NoFrame
  /\ UNCHANGED btn

btn_on_pressed(g) == [g EXCEPT !.btn_press_time = 0]

\* mutant: a short press reloads the address also while the autodetection
\* is in progress
btn_short_press_reloads(g, strap) ==
  [autodetect_mtbbus_speed_stop(g) EXCEPT !.addr_zero = (strap = 0), !.mtbbus_addr = strap]

\* strap: what io_get_addr_raw reads
btn_short_press(g, strap) ==
  IF g.mtbbus_auto_speed_in_progress
  THEN autodetect_mtbbus_speed_stop(g)
  ELSE [g EXCEPT !.addr_zero = (strap = 0), !.mtbbus_addr = strap]

\* the indicators btn_short_press touches, in order
btn_short_press_leds(g, strap) ==
  IF g.mtbbus_auto_speed_in_progress
  THEN <<"io_led_blue_off">>
  ELSE IF strap # 0 THEN <<"led_red_ok">> ELSE <<>>

\* mutant: the release test is <= instead of <
short_press_due_inclusive(g) == g.btn_press_time <= BTN_PRESS_1S

short_press_due(g) == g.btn_press_time < BTN_PRESS_1S

btn_on_depressed(g, strap) ==
  IF short_press_due(g) THEN btn_short_press(g, strap) ELSE g

btn_long_press(g) ==
  IF ~mtbbus_addressed(g) THEN autodetect_mtbbus_speed(g) ELSE g

\* inputs_debounce_update: the debounced button goes down
BtnPress ==
  /\ ~m.halted /\ pc = "debounce"
  /\ ~m.btn_pressed
  /\ m' = btn_on_pressed([m EXCEPT !.btn_pressed = TRUE])
  /\ btn' = [phase |-> "down", reached |-> FALSE, shorts |-> 0, longs |-> 0,
             leds |-> <<>>]
  /\ pc' = "config"
  /\ last' = NoFrame
  /\ UNCHANGED hist

\* inputs_debounce_update: the debounced button goes up
BtnRelease(strap) ==
  /\ ~m.halted /\ pc = "debounce"
  /\ m.btn_pressed
  /\ m' = btn_on_depressed([m EXCEPT !.btn_pressed = FALSE], strap)
  /\ btn' = [btn EXCEPT !.phase = "up",
                        !.shorts = IF short_press_due(m) THEN Inc(@, 2) ELSE @,
                        !.leds = IF short_press_due(m)
                                 THEN btn_short_press_leds(m, strap) ELSE <<>>]
  /\ pc' = "config"
  /\ last' = NoFrame
  /\ UNCHANGED hist

\* lines 298-301: config_save reports whether all data is saved
ConfigSave(saved) ==
  /\ ~m.halted /\ pc = "config"
  /\ m' = IF m.config_write /\ saved THEN [m EXCEPT !.config_write = FALSE] ELSE m
  /\ pc' = "btn"
  /\ UNCHANGED <<last, hist, btn>>

long_press_due(g) == g.btn_press_time = BTN_PRESS_1S

\* line 303
BtnTest ==
  /\ ~m.halted /\ pc = "btn"
  /\ pc' = IF long_press_due(m) THEN "btn_fire" ELSE "auto"
  /\ UNCHANGED <<m, last, hist, btn>>

\* lines 304-305
BtnFire ==
  /\ ~m.halted /\ pc = "btn_fire"
  /\ m' = btn_long_press([m EXCEPT !.btn_press_time = U8_FF])
  /\ btn' = [btn EXCEPT !.longs = Inc(@, 2)]
  /\ pc' = "auto"
  /\ UNCHANGED <<last, hist>>

auto_speed_due(g) ==
  g.mtbbus_auto_speed_in_progress /\ g.mtbbus_auto_speed_timer = MTBBUS_AUTO_SPEED_TIMEOUT

\* lines 308-309
AutoSpeedStep ==
  /\ ~m.halted /\ pc = "auto"
  /\ m' = IF auto_speed_due(m) THEN mtbbus_auto_speed_next(m) ELSE m
  /\ hist' = [hist EXCEPT !.wrapped = @ \/ (auto_speed_due(m)
                                             /\ m.mtbbus_speed = MTBBUS_SPEED_MAX)]
  /\ pc' = "init"
  /\ UNCHANGED <<last, btn>>

init_due(g) == g.init_counter = INIT_TIME

\* line 316
InitTest ==
  /\ ~m.halted /\ pc = "init"
  /\ pc' = IF init_due(m) THEN "init_fire" ELSE "update"
  /\ UNCHANGED <<m, last, hist, btn>>

on_initialized(g) == [g EXCEPT !.initialized = TRUE]

\* lines 317-318
InitFire ==
  /\ ~m.halted /\ pc = "init_fire"
  /\ m' = on_initialized([m EXCEPT !.init_counter = U8_FF])
  /\ hist' = [hist EXCEPT !.fired = Inc(@, 2)]
  /\ pc' = "update"
  /\ UNCHANGED <<last, btn>>

---------------------------------------------------------------------------
(* The environment: what the master sends, what the inputs and the strap   *)
(* show                                                                    *)

\* the payloads tried for a command: around its minimum length
PayloadsOf(command_code) ==
  CASE command_code = "MODULE_INQUIRY" -> { <<>>, <<0>>, <<1>> }
    [] command_code = "SET_CONFIG" ->
         { Payload(SET_CONFIG_MIN_LEN - 1, 1, 2), Payload(SET_CONFIG_MIN_LEN, 1, 2) }
    [] command_code = "BEACON" -> { <<>>, <<1>> }
    [] command_code = "SET_OUTPUT" ->
         { Payload(SET_OUTPUT_MIN_LEN - 1, 1, 0), Payload(SET_OUTPUT_MIN_LEN, 1, 0) }
    [] command_code = "CHANGE_ADDR" -> { <<>>, <<9>> }
    [] command_code = "CHANGE_SPEED" -> { <<>>, <<MTBBUS_SPEED_38400 + 1>> }
    [] command_code = "FWUPGD_REQUEST" -> { <<>>, <<1>> }
    [] command_code = "DIAG_VALUE_REQ" ->
         { <<>>, <<MTBBUS_DV_STATE>>, <<MTBBUS_DV_WARNINGS>>, <<200>> }
    [] OTHER -> { <<>>, <<1>> }

ReqsOf(commands) ==
  UNION { { Req(bc, cc, d) : bc \in BOOLEAN, d \in PayloadsOf(cc) } : cc \in commands }

AllReqs == ReqsOf(Commands \cup {UNKNOWN_CMD})

InputValues == { 0, 258 }
StrapValues == { 0, 5 }

\* the master keeps polling: after an accepted frame the bus is silent for
\* at most MaxIdleTicks ticks
BusPolled ==
  m.mtbbus_timeout = MTBBUS_TIMEOUT_MAX \/ m.mtbbus_timeout < MaxIdleTicks

---------------------------------------------------------------------------
(* Specifications *)

\* the rest of a main loop pass, after mtbbus_update and
\* inputs_debounce_update, while the button is never pressed
LoopTail ==
  \/ \E saved \in BOOLEAN : ConfigSave(saved)
  \/ BtnTest
  \/ AutoSpeedStep
  \/ InitTest
  \/ InitFire

\* the dispatcher: every command, unicast and broadcast, before and after
\* the module is ready
Init == InitWith({MTBBUS_SPEED_38400}, {5}, {0})

Next ==
  \/ BusPolled /\ TIMER3_COMPA(FALSE)
  \/ MtbbusIdle
  \/ \E r \in AllReqs : MtbbusReceive(r)
  \/ SentComplete
  \/ DebounceIdle
  \/ LoopTail

Spec == Init /\ [][Next]_vars

\* the change-notification tracker: inquiries and diagnostic requests while
\* the inputs and the warnings change
TrackerReqs == ReqsOf({ "MODULE_INQUIRY", "DIAG_VALUE_REQ", "GET_INPUT" })

NextTracker ==
  \/ \E missed \in BOOLEAN : BusPolled /\ TIMER3_COMPA(missed)
  \/ MtbbusIdle
  \/ \E r \in TrackerReqs : MtbbusReceive(r)
  \/ DebounceIdle
  \/ \E v \in InputValues : InputsChange(v)
  \/ LoopTail

SpecTracker == Init /\ [][NextTracker]_vars

\* the button and the timer: no frame arrives
NextButton ==
  \/ TIMER3_COMPA(FALSE)
  \/ MtbbusIdle
  \/ DebounceIdle
  \/ BtnPress
  \/ \E strap \in StrapValues : BtnRelease(strap)
  \/ LoopTail
  \/ BtnFire

SpecButton == Init /\ [][NextButton]_vars

\* autodetection left alone: no frame arrives, and the button is released
\* only after its long press and not pressed again while the autodetection
\* runs.  The timer interrupt keeps firing and the main loop keeps running.
AutoLoop ==
  \/ MtbbusIdle
  \/ DebounceIdle
  \/ ~m.mtbbus_auto_speed_in_progress /\ BtnPress
  \/ \E strap \in StrapValues : ~short_press_due(m) /\ BtnRelease(strap)
  \/ LoopTail
  \/ BtnFire

NextAuto == TIMER3_COMPA(FALSE) \/ AutoLoop

SpecAuto ==
  /\ Init
  /\ [][NextAuto]_vars
  /\ WF_vars(TIMER3_COMPA(FALSE))
  /\ WF_vars(AutoLoop)

\* autodetection meets the bus: the master sends every command while the
\* autodetection runs, and SET_CONFIG requests before the button is touched
ButtonUntouched == ~m.btn_pressed /\ m.btn_press_time = 0

NextAutoRx ==
  \/ BusPolled /\ TIMER3_COMPA(FALSE)
  \/ MtbbusIdle
  \/ \E r \in AllReqs : m.mtbbus_auto_speed_in_progress /\ MtbbusReceive(r)
  \/ \E r \in ReqsOf({"SET_CONFIG"}) : ButtonUntouched /\ MtbbusReceive(r)
  \/ SentComplete
  \/ DebounceIdle
  \/ ~m.mtbbus_auto_speed_in_progress /\ BtnPress
  \/ \E strap \in {5} : BtnRelease(strap)
  \/ LoopTail
  \/ BtnFire

SpecAutoRx == Init /\ [][NextAutoRx]_vars

---------------------------------------------------------------------------
(* Properties of the dispatcher, checked under Spec *)

\* C1: no request delivered with broadcast = true, whatever its command
\* code and payload length, has a response frame staged for it
\* (mtbbus_send_buf_autolen is never called while it is handled).
C1_BroadcastNeverAnswered ==
  last.valid /\ last.req.broadcast =>
    /\ last.sent = <<>>
    /\ \A i \in DOMAIN last.log : last.log[i] # "send"

\* the minimum payload of each request of the wire protocol
C2_MinLen(command_code) ==
  CASE command_code = "MODULE_INQUIRY" -> 1
    [] command_code = "SET_CONFIG" -> NO_OUTPUTS + NO_INPUTS \div 2
    [] command_code = "BEACON" -> 1
    [] command_code = "SET_OUTPUT" -> 4
    [] command_code = "CHANGE_ADDR" -> 1
    [] command_code = "CHANGE_SPEED" -> 1
    [] command_code = "FWUPGD_REQUEST" -> 1
    [] command_code = "DIAG_VALUE_REQ" -> 1
    [] OTHER -> 0

C2_Rejected(r) ==
  /\ ~r.broadcast
  /\ \/ r.command_code \notin Commands
     \/ Len(r.data) < C2_MinLen(r.command_code)

C2_ErrorFrame == Frame(2, "ERROR", <<MTBBUS_ERROR_UNKNOWN_COMMAND>>)

\* C2: on a ready module a unicast request with an unrecognized command
\* code, or with a recognized code and a payload shorter than the command's
\* minimum, is answered with exactly the frame (2, ERROR, unknown command);
\* nothing else happens: the module does not halt, no reboot is scheduled
\* and only the liveness timeout is reset, so later requests are served as
\* before.
C2_UnknownCommandError ==
  last.valid /\ last.pre.initialized /\ C2_Rejected(last.req) =>
    /\ last.sent = <<C2_ErrorFrame>>
    /\ last.log = <<"send">>
    /\ last.post = [last.pre EXCEPT !.mtbbus_timeout = 0]
    /\ ~last.post.halted

\* C2 happens: a unicast SET_CONFIG one byte short, and a unicast request of
\* an unknown code, are answered with the error frame
C2_Witness ==
  /\ last.valid /\ last.pre.initialized
  /\ last.req \in { Req(FALSE, "SET_CONFIG", Payload(SET_CONFIG_MIN_LEN - 1, 1, 2)),
                    Req(FALSE, UNKNOWN_CMD, <<1>>) }
  /\ last.sent = <<C2_ErrorFrame>>

\* C3: on a ready module every non-broadcast request stages exactly one
\* response frame, whatever its command code and payload length.
C3_ExactlyOneResponse ==
  last.valid /\ last.pre.initialized /\ ~last.req.broadcast =>
    /\ Len(last.sent) = 1
    /\ Cardinality({ i \in DOMAIN last.log : last.log[i] = "send" }) = 1

\* C3 happens: a unicast BEACON is acknowledged once, after its effect
C3_Witness ==
  /\ last.valid /\ last.pre.initialized
  /\ last.req = Req(FALSE, "BEACON", <<1>>)
  /\ last.sent = <<Frame(1, "ACK", <<>>)>>
  /\ last.post.beacon

\* C4: a frame received before the ready flag is set produces no response
\* and no side effect (the globals are what they were); the ready flag is
\* set only after INIT_TIME ticks; on_initialized runs once and no more; the
\* ready flag never becomes false again.
C4_InitGate ==
  /\ [](last.valid /\ ~last.pre.initialized =>
          last.sent = <<>> /\ last.log = <<>> /\ last.post = last.pre)
  /\ [](hist.fired <= 1)
  /\ [](m.initialized => hist.fired = 1 /\ hist.ticks = INIT_TIME)
  /\ [][m.initialized => m'.initialized]_vars

\* C4 happens: the tick counter has reached INIT_TIME, the main loop has not
\* yet set the ready flag, and a valid unicast SET_OUTPUT is dropped
C4_Witness ==
  /\ last.valid /\ ~last.pre.initialized
  /\ last.pre.init_counter = INIT_TIME
  /\ last.req = Req(FALSE, "SET_OUTPUT", Payload(SET_OUTPUT_MIN_LEN, 1, 0))
  /\ last.sent = <<>>
  /\ last.post = last.pre

---------------------------------------------------------------------------
(* Properties of the change-notification tracker, checked under SpecTracker *)

C5_Ack == Frame(1, "ACK", <<>>)

\* the state push of the tracker: index, then the warning summary in bit 1
C5_StatePush(g) ==
  Frame(3, "DIAG_VALUE", <<MTBBUS_DV_STATE, IF g.mtbbus_warn_flags > 0 THEN 2 ELSE 0>>)

\* the second of two consecutive answered inquiries, with no change of the
\* inputs or of the warnings in between, carrying the "received" bit
C5_SecondInquiry ==
  /\ last.valid /\ TrackerRuns(last.pre, last.req)
  /\ last.hist.prev # NoResp
  /\ ~last.hist.in_changed /\ ~last.hist.warn_changed
  /\ Bit0(last.req.data[1])

\* C5 as stated: the second of two consecutive answered inquiries, between
\* which neither the inputs nor the warnings change and which carries the
\* "received" bit, is answered with ACK.
C5_SecondIsAck ==
  C5_SecondInquiry => last.sent = <<C5_Ack>>

\* C5, amended: such a second inquiry is answered with ACK when the warning
\* bitset is the one last reported, which is so whenever the first answer
\* was ACK or DIAG_VALUE; otherwise the first answer was INPUT_CHANGED, a
\* change of the warnings is still unreported, and the second answer is the
\* DIAG_VALUE state push.
C5_SecondIsAckOrPendingPush ==
  C5_SecondInquiry =>
    /\ last.pre.mtbbus_warn_flags = last.pre.mtbbus_warn_flags_old
         => last.sent = <<C5_Ack>>
    /\ last.pre.mtbbus_warn_flags # last.pre.mtbbus_warn_flags_old
         => /\ last.hist.prev.code = "INPUT_CHANGED"
            /\ last.sent = <<C5_StatePush(last.pre)>>
            /\ last.post.mtbbus_warn_flags_old = last.pre.mtbbus_warn_flags
    /\ last.hist.prev.code \in { "ACK", "DIAG_VALUE" } => last.sent = <<C5_Ack>>

\* C5 happens: an inquiry answered with a state push is followed, with no
\* change, by an inquiry carrying the "received" bit, answered with ACK
C5_Witness ==
  /\ C5_SecondInquiry
  /\ last.hist.prev.code = "DIAG_VALUE"
  /\ last.pre.last_diag_changed
  /\ last.sent = <<C5_Ack>>

\* the notification of snapshot v: two bytes, the high one first
C6_Notification(v) == Frame(3, "INPUT_CHANGED", <<v \div 256, v % 256>>)

\* C6: an inquiry that finds the input snapshot different from the one last
\* reported is answered with INPUT_CHANGED carrying the new snapshot, which
\* becomes the reported one; an inquiry that follows an INPUT_CHANGED and
\* reports "not received" is answered with INPUT_CHANGED again, carrying
\* the live snapshot, so the very same frame when the inputs did not change
\* meanwhile; after an INPUT_CHANGED the answer is DIAG_VALUE or ACK only to
\* an inquiry that reports "received" and finds the inputs as reported.
C6_InputChangedRetry ==
  last.valid /\ TrackerRuns(last.pre, last.req) =>
    /\ last.pre.inputs_logic_state # last.pre.inputs_old
         => /\ last.sent = <<C6_Notification(last.pre.inputs_logic_state)>>
            /\ last.post.inputs_old = last.pre.inputs_logic_state
    /\ last.hist.prev.code = "INPUT_CHANGED" /\ ~Bit0(last.req.data[1])
         => /\ last.sent = <<C6_Notification(last.pre.inputs_logic_state)>>
            /\ (~last.hist.in_changed => last.sent = <<last.hist.prev>>)
    /\ last.hist.prev.code = "INPUT_CHANGED"
       /\ last.sent[1].code \in { "ACK", "DIAG_VALUE" }
         => /\ Bit0(last.req.data[1])
            /\ last.pre.inputs_logic_state = last.pre.inputs_old

\* C6 happens: the notification of snapshot 258 is sent again to an inquiry
\* that reports "not received", the inputs being what they were
C6_Witness ==
  /\ last.valid /\ TrackerRuns(last.pre, last.req)
  /\ last.hist.prev = C6_Notification(258)
  /\ ~last.hist.in_changed
  /\ ~Bit0(last.req.data[1])
  /\ last.sent = <<C6_Notification(258)>>

---------------------------------------------------------------------------
(* Properties of the autodetection left alone, checked under SpecAuto *)

\* the speed after s in the ordered enumeration, the minimum after the
\* maximum
C7_NextSpeed(s) == IF s = MTBBUS_SPEED_MAX THEN MTBBUS_SPEED_38400 ELSE s + 1

\* one step of the program seen from the autodetection
C7_Step ==
  LET probing == m.mtbbus_auto_speed_in_progress
  IN /\ ~probing /\ m'.mtbbus_auto_speed_in_progress
          => /\ m'.mtbbus_speed = MTBBUS_SPEED_38400
             /\ m'.mtbbus_auto_speed_timer = 0
     /\ probing => m'.mtbbus_auto_speed_in_progress
     /\ probing /\ m'.mtbbus_speed # m.mtbbus_speed
          => /\ m.mtbbus_auto_speed_timer = MTBBUS_AUTO_SPEED_TIMEOUT
             /\ m'.mtbbus_speed = C7_NextSpeed(m.mtbbus_speed)
             /\ m'.mtbbus_auto_speed_timer = 0
     /\ probing /\ m'.mtbbus_auto_speed_timer # m.mtbbus_auto_speed_timer
          => \/ /\ m'.mtbbus_auto_speed_timer = m.mtbbus_auto_speed_timer + 1
                /\ m'.mtbbus_speed = m.mtbbus_speed
             \/ /\ m.mtbbus_auto_speed_timer = MTBBUS_AUTO_SPEED_TIMEOUT
                /\ m'.mtbbus_speed = C7_NextSpeed(m.mtbbus_speed)

\* C7: with no valid frame and no short press, the autodetection starts at
\* the minimum speed with its timer at zero; the speed changes only when the
\* timer has counted MTBBUS_AUTO_SPEED_TIMEOUT ticks, and then to the next
\* speed of the enumeration, the minimum after the maximum; the
\* autodetection never becomes inactive; and while it runs every supported
\* speed is set again and again.
C7_AutodetectCycles ==
  /\ [][C7_Step]_vars
  /\ \A s \in Speeds :
       [](m.mtbbus_auto_speed_in_progress => <>(m.mtbbus_speed = s))

\* C7 happens: the autodetection wrapped from the maximum speed to the
\* minimum and went on to the speed after it
C7_Witness ==
  /\ m.mtbbus_auto_speed_in_progress
  /\ hist.wrapped
  /\ m.mtbbus_speed = MTBBUS_SPEED_38400 + 1
  /\ m.mtbbus_auto_speed_timer = MTBBUS_AUTO_SPEED_TIMEOUT

---------------------------------------------------------------------------
(* Properties of the autodetection meeting the bus, checked under          *)
(* SpecAutoRx                                                              *)

\* a valid frame received while the autodetection is in progress
C8_FrameWhileProbing ==
  last.valid /\ last.pre.mtbbus_auto_speed_in_progress

\* C8 as stated: a valid frame received while the autodetection is in
\* progress, whatever its command code and destination, ends the
\* autodetection in that dispatch, leaves the persisted speed equal to the
\* speed probed at that moment and marks the configuration dirty.
C8_FrameEndsAutodetect ==
  C8_FrameWhileProbing =>
    /\ ~last.post.mtbbus_auto_speed_in_progress
    /\ last.post.config_mtbbus_speed = last.pre.mtbbus_speed
    /\ last.post.config_write

\* the speed a frame asks the module to change to, if it does
C8_AsksSpeed(r) == r.command_code = "CHANGE_SPEED" /\ Len(r.data) >= 1

\* C8, amended: a valid frame received while the autodetection is in
\* progress ends the autodetection in that dispatch and marks the
\* configuration dirty; the persisted speed is then the speed probed at that
\* moment, unless the frame is a CHANGE_SPEED with a payload, whose
\* requested speed is persisted and set instead.
C8_FrameEndsAutodetectOrChangesSpeed ==
  C8_FrameWhileProbing =>
    /\ last.pre.initialized
    /\ ~last.post.mtbbus_auto_speed_in_progress
    /\ last.post.config_write
    /\ ~C8_AsksSpeed(last.req)
         => /\ last.post.config_mtbbus_speed = last.pre.mtbbus_speed
            /\ last.post.mtbbus_speed = last.pre.mtbbus_speed
    /\ C8_AsksSpeed(last.req)
         => /\ last.post.config_mtbbus_speed = last.req.data[1]
            /\ last.post.mtbbus_speed = last.req.data[1]

\* C8 happens: a broadcast frame of an unknown code arrives while the
\* maximum speed is probed, and the maximum speed is persisted
C8_Witness ==
  /\ C8_FrameWhileProbing
  /\ last.req = Req(TRUE, UNKNOWN_CMD, <<>>)
  /\ last.pre.mtbbus_speed = MTBBUS_SPEED_MAX
  /\ ~last.pre.config_write
  /\ last.post.config_mtbbus_speed = MTBBUS_SPEED_MAX
  /\ last.post.config_write
  /\ ~last.post.mtbbus_auto_speed_in_progress

\* a SET_CONFIG request with a payload shorter than the minimum
C9_ShortSetConfig ==
  /\ last.valid
  /\ last.req.command_code = "SET_CONFIG"
  /\ Len(last.req.data) < NO_OUTPUTS + NO_INPUTS \div 2

\* C9 as stated: a SET_CONFIG request with a payload shorter than the
\* minimum leaves the safe-state vector, the debounce-delay table, the
\* persisted bus speed and the write-pending flag unchanged in every
\* reachable state, and a unicast one is answered with an ERROR response
\* (by a ready module).
C9_ShortSetConfigChangesNothing ==
  C9_ShortSetConfig =>
    /\ last.post.config_safe_state = last.pre.config_safe_state
    /\ last.post.config_inputs_delay = last.pre.config_inputs_delay
    /\ last.post.config_mtbbus_speed = last.pre.config_mtbbus_speed
    /\ last.post.config_write = last.pre.config_write
    /\ last.pre.initialized /\ ~last.req.broadcast
         => Len(last.sent) = 1 /\ last.sent[1].code = "ERROR"

\* C9, amended: a SET_CONFIG request with a payload shorter than the minimum
\* leaves the safe-state vector and the debounce-delay table unchanged; it
\* leaves the persisted bus speed and the write-pending flag unchanged too
\* unless the autodetection is in progress, which it then ends as any valid
\* frame does: the probed speed is persisted and the write-pending flag is
\* set; on a ready module a unicast one is answered with the ERROR frame of
\* an unknown command, and before that with nothing.
C9_ShortSetConfigKeepsTables ==
  C9_ShortSetConfig =>
    /\ last.post.config_safe_state = last.pre.config_safe_state
    /\ last.post.config_inputs_delay = last.pre.config_inputs_delay
    /\ ~last.pre.mtbbus_auto_speed_in_progress
         => /\ last.post.config_mtbbus_speed = last.pre.config_mtbbus_speed
            /\ last.post.config_write = last.pre.config_write
    /\ last.pre.mtbbus_auto_speed_in_progress
         => /\ last.post.config_mtbbus_speed = last.pre.mtbbus_speed
            /\ last.post.config_write
    /\ last.pre.initialized /\ ~last.req.broadcast
         => last.sent = <<Frame(2, "ERROR", <<MTBBUS_ERROR_UNKNOWN_COMMAND>>)>>
    /\ ~last.pre.initialized \/ last.req.broadcast => last.sent = <<>>

\* C9 happens: a unicast SET_CONFIG one byte short is refused on a ready
\* module whose configuration is not waiting to be written, with no
\* autodetection in progress
C9_Witness ==
  /\ C9_ShortSetConfig
  /\ last.pre.initialized /\ ~last.req.broadcast
  /\ ~last.pre.mtbbus_auto_speed_in_progress
  /\ ~last.pre.config_write /\ ~last.post.config_write
  /\ last.sent = <<Frame(2, "ERROR", <<MTBBUS_ERROR_UNKNOWN_COMMAND>>)>>

---------------------------------------------------------------------------
(* Properties of the button, checked under SpecButton *)

\* C10: for every hold of the button, under every interleaving of the timer
\* interrupt, the main loop and the press and release events: no action
\* fires twice; a hold released before btn_press_time reached BTN_PRESS_1S
\* has fired the short press once and never fires the long press; a hold
\* whose btn_press_time reached BTN_PRESS_1S never fires the short press,
\* and its long press is either still due (btn_press_time is BTN_PRESS_1S)
\* or has fired once (btn_press_time is 0xFF and stays), however long the
\* button stays down; the next hold starts only after a long press that was
\* due has fired.
C10_ShortOrLongOnce ==
  /\ [](btn.shorts <= 1 /\ btn.longs <= 1)
  /\ [](btn.phase = "down" => btn.shorts = 0)
  /\ [](~btn.reached => btn.longs = 0)
  /\ [](btn.phase = "up" /\ ~btn.reached => btn.shorts = 1)
  /\ [](btn.reached =>
          /\ btn.shorts = 0
          /\ \/ btn.longs = 0 /\ m.btn_press_time = BTN_PRESS_1S
             \/ btn.longs = 1 /\ m.btn_press_time = U8_FF)
  /\ [][~m.btn_pressed /\ m'.btn_pressed => ~(btn.reached /\ btn.longs = 0)]_vars

\* C10 happens: a hold that reached BTN_PRESS_1S has ended; it fired the
\* long press once and no short press
C10_Witness ==
  /\ btn.phase = "up" /\ ~m.btn_pressed
  /\ btn.reached
  /\ btn.longs = 1 /\ btn.shorts = 0
  /\ m.btn_press_time = U8_FF

---------------------------------------------------------------------------
(* Order of response and effect, checked under Spec *)

\* the commands that acknowledge and have a side effect
C11_Commands ==
  { "SET_CONFIG", "BEACON", "SET_OUTPUT", "RESET_OUTPUTS", "CHANGE_SPEED",
    "FWUPGD_REQUEST" }

\* C11: for every unicast SET_CONFIG, BEACON, SET_OUTPUT, RESET_OUTPUTS,
\* CHANGE_SPEED and FWUPGD_REQUEST that is acknowledged and has its effect,
\* the response is handed to the transport before the effect is invoked:
\* the send is the first thing the dispatch does.
C11_ResponseBeforeEffect ==
  /\ last.valid /\ last.pre.initialized /\ ~last.req.broadcast
  /\ last.req.command_code \in C11_Commands
  /\ Len(last.sent) = 1 /\ last.sent[1].code \in { "ACK", "OUTPUT_SET" }
  => /\ Len(last.log) = 2
     /\ last.log[1] = "send"

---------------------------------------------------------------------------
(* The deferred reboot, checked under Spec *)

\* a request dispatched by a ready module
C12_Dispatched(broadcast, command_code) ==
  /\ last.valid /\ last.pre.initialized
  /\ last.req.broadcast = broadcast
  /\ last.req.command_code = command_code

\* C12: a unicast REBOOT, or a unicast FWUPGD_REQUEST with a payload, does
\* not invoke goto_bootloader inside the dispatch: it makes goto_bootloader
\* the send-complete callback and stages an ACK; a broadcast REBOOT invokes
\* goto_bootloader at once and stages nothing; a broadcast FWUPGD_REQUEST
\* neither reboots nor responds nor registers anything.  The callback is
\* registered only together with a staged ACK, and the module reboots only
\* in a broadcast REBOOT or in the callback, which the transport calls when
\* the response is sent.
C12_DeferredReboot ==
  /\ [](\/ C12_Dispatched(FALSE, "REBOOT")
        \/ C12_Dispatched(FALSE, "FWUPGD_REQUEST") /\ Len(last.req.data) >= 1
        => /\ last.sent = <<Frame(1, "ACK", <<>>)>>
           /\ ~last.post.halted
           /\ \A i \in DOMAIN last.log : last.log[i] # "goto_bootloader"
           /\ last.post.mtbbus_on_sent = "goto_bootloader")
  /\ [](C12_Dispatched(TRUE, "REBOOT")
        => /\ last.sent = <<>>
           /\ last.post.halted
           /\ last.log = <<"goto_bootloader">>)
  /\ [](C12_Dispatched(TRUE, "FWUPGD_REQUEST")
        => /\ last.sent = <<>>
           /\ last.post = [last.pre EXCEPT !.mtbbus_timeout = 0])
  /\ [][m.mtbbus_on_sent # m'.mtbbus_on_sent
          => /\ m'.mtbbus_on_sent = "goto_bootloader"
             /\ last'.valid /\ last'.sent = <<Frame(1, "ACK", <<>>)>>
             /\ ~m'.halted]_vars
  /\ [][~m.halted /\ m'.halted
          => \/ m.mtbbus_on_sent = "goto_bootloader" /\ UNCHANGED last
             \/ /\ last'.valid /\ last'.req.broadcast
                /\ last'.req.command_code = "REBOOT"]_vars

\* C12 happens: a unicast REBOOT was acknowledged without rebooting, and the
\* module rebooted afterwards from the send-complete callback
C12_Witness ==
  /\ C12_Dispatched(FALSE, "REBOOT")
  /\ last.sent = <<Frame(1, "ACK", <<>>)>>
  /\ ~last.post.halted
  /\ m.halted

---------------------------------------------------------------------------
(* The module address: every request of the bus, and short presses of the  *)
(* button; the button is released before the hold reaches MaxHoldTicks     *)
(* ticks, so no long press fires                                           *)

MaxHoldTicks == 1

HoldShort == ~m.btn_pressed \/ m.btn_press_time < MaxHoldTicks

\* the longest payload tried for a command
LongestPayload(command_code) ==
  CHOOSE d \in PayloadsOf(command_code) :
    \A e \in PayloadsOf(command_code) : Len(e) <= Len(d)

\* every command code, unicast and broadcast, with its longest payload, and
\* CHANGE_ADDR with every payload
AddrReqs ==
  { Req(bc, cc, LongestPayload(cc)) : bc \in BOOLEAN, cc \in Commands \cup {UNKNOWN_CMD} }
    \cup ReqsOf({"CHANGE_ADDR"})

NextAddr ==
  \/ BusPolled /\ HoldShort /\ TIMER3_COMPA(FALSE)
  \/ MtbbusIdle
  \/ \E r \in AddrReqs : MtbbusReceive(r)
  \/ SentComplete
  \/ DebounceIdle
  \/ BtnPress
  \/ \E strap \in StrapValues : BtnRelease(strap)
  \/ LoopTail

SpecAddr == Init /\ [][NextAddr]_vars

C13_Unsupported == Frame(2, "ERROR", <<MTBBUS_ERROR_UNSUPPORTED_COMMAND>>)

\* C13: a unicast CHANGE_ADDR with a payload of at least one byte is
\* answered by a ready module with exactly the ERROR frame of an unsupported
\* command; no dispatch of any request changes the module address or the
\* address-invalid flag; the address changes only in the release of a hold
\* shorter than BTN_PRESS_1S with no autodetection in progress, and then to
\* what the strap shows.
C13_AddressOnlyByStrap ==
  /\ [](/\ last.valid /\ last.pre.initialized
        /\ ~last.req.broadcast /\ last.req.command_code = "CHANGE_ADDR"
        /\ Len(last.req.data) >= 1
        => last.sent = <<C13_Unsupported>>)
  /\ [](last.valid => /\ last.post.mtbbus_addr = last.pre.mtbbus_addr
                      /\ last.post.addr_zero = last.pre.addr_zero)
  /\ [][m'.mtbbus_addr # m.mtbbus_addr \/ m'.addr_zero # m.addr_zero
          => /\ m.btn_pressed /\ ~m'.btn_pressed
             /\ m.btn_press_time < BTN_PRESS_1S
             /\ ~m.mtbbus_auto_speed_in_progress
             /\ ~last'.valid
             /\ m'.mtbbus_addr \in StrapValues
             /\ m'.addr_zero = (m'.mtbbus_addr = 0)]_vars

\* C13 happens: a short press has reloaded the address (0, where the module
\* started with 5), and a unicast CHANGE_ADDR asking for 9 is refused and
\* leaves it
C13_Witness ==
  /\ last.valid /\ last.pre.initialized
  /\ last.req = Req(FALSE, "CHANGE_ADDR", <<9>>)
  /\ last.pre.mtbbus_addr = 0
  /\ last.sent = <<C13_Unsupported>>
  /\ m.mtbbus_addr = 0

---------------------------------------------------------------------------
(* The diagnostic branch of the tracker, checked under SpecTracker *)

\* an answered inquiry that does not take the input-changed branch
C14_PastInputBranch ==
  /\ last.valid /\ TrackerRuns(last.pre, last.req)
  /\ last.sent[1].code # "INPUT_CHANGED"

\* C14: an inquiry that does not take the input-changed branch is answered
\* with the DIAG_VALUE state push only if the live warning bitset differs
\* from the last-reported one, or the preceding inquiry was answered with a
\* state push and this one reports "not received"; otherwise it is answered
\* with ACK.
C14_PushOnlyWhenDue ==
  C14_PastInputBranch =>
    LET due == \/ last.pre.mtbbus_warn_flags # last.pre.mtbbus_warn_flags_old
               \/ /\ last.hist.prev.code = "DIAG_VALUE"
                  /\ ~Bit0(last.req.data[1])
    IN /\ due => last.sent = <<C5_StatePush(last.pre)>>
       /\ ~due => last.sent = <<C5_Ack>>

\* C15: a state push that the master has not confirmed stays pending: no
\* inquiry is answered with ACK while a state push is sent and not
\* confirmed, also when an input change was notified in between.
C15_PendingPushNeverDropped ==
  last.valid /\ TrackerRuns(last.pre, last.req) /\ last.sent = <<C5_Ack>>
    => ~hist.push_pending

---------------------------------------------------------------------------
(* The short press, checked under SpecButton *)

\* a step that releases a hold shorter than BTN_PRESS_1S
C16_ShortPress ==
  m.btn_pressed /\ ~m'.btn_pressed /\ m.btn_press_time < BTN_PRESS_1S

C16_Step ==
  C16_ShortPress =>
    /\ m.mtbbus_auto_speed_in_progress
         => /\ m' = [m EXCEPT !.btn_pressed = FALSE,
                              !.mtbbus_auto_speed_in_progress = FALSE]
            /\ \A i \in DOMAIN btn'.leds : btn'.leds[i] # "led_red_ok"
    /\ ~m.mtbbus_auto_speed_in_progress
         => \E strap \in StrapValues :
              /\ m' = [m EXCEPT !.btn_pressed = FALSE,
                                !.mtbbus_addr = strap,
                                !.addr_zero = (strap = 0)]
              /\ btn'.leds = IF strap # 0 THEN <<"led_red_ok">> ELSE <<>>

\* C16: a short press while the autodetection is in progress makes it
\* inactive and changes nothing else: the persisted speed, the
\* write-pending flag, the module address and the address-invalid flag stay
\* and the red indicator is not touched; a short press while the
\* autodetection is inactive sets the module address to what the strap
\* shows and the address-invalid flag iff that is 0, changes nothing else,
\* and calls led_red_ok iff the address is not 0.
C16_ShortPressCancelsOrReloads == [][C16_Step]_vars

\* C16 happens: the latest hold ended in a short press that cancelled the
\* autodetection while it probed a speed other than the persisted one
C16_Witness ==
  /\ btn.phase = "up" /\ btn.shorts = 1
  /\ btn.leds = <<"io_led_blue_off">>
  /\ ~m.mtbbus_auto_speed_in_progress
  /\ m.mtbbus_speed # m.config_mtbbus_speed
  /\ ~m.config_write

---------------------------------------------------------------------------
(* The long press and the liveness of the bus: the master sends a          *)
(* GET_INPUT at any moment of a hold of the button, after a silence of     *)
(* MTBBUS_TIMEOUT_MAX ticks or more; the button is pressed once the module *)
(* is ready, and released at any time.  Once an autodetection runs it is   *)
(* left alone: no frame arrives and the button is not pressed again        *)

PollReqs == { Req(FALSE, "GET_INPUT", <<>>) }

BusSilent ==
  /\ m.btn_pressed /\ m.mtbbus_timeout = MTBBUS_TIMEOUT_MAX
  /\ ~m.mtbbus_auto_speed_in_progress

NextLong ==
  \/ TIMER3_COMPA(FALSE)
  \/ MtbbusIdle
  \/ \E r \in PollReqs : BusSilent /\ MtbbusReceive(r)
  \/ DebounceIdle
  \/ m.initialized /\ ~m.mtbbus_auto_speed_in_progress /\ BtnPress
  \/ \E strap \in {5} : BtnRelease(strap)
  \/ LoopTail
  \/ BtnFire

SpecLong == Init /\ [][NextLong]_vars

\* the step that fires the long press (lines 303-305)
C17_LongPress ==
  m.btn_press_time = BTN_PRESS_1S /\ m'.btn_press_time = U8_FF

C17_Step ==
  /\ C17_LongPress /\ hist.silent = MTBBUS_TIMEOUT_MAX
       => /\ m'.mtbbus_auto_speed_in_progress
          /\ m'.mtbbus_speed = MTBBUS_SPEED_38400
          /\ m'.mtbbus_auto_speed_timer = 0
  /\ C17_LongPress /\ hist.silent < MTBBUS_TIMEOUT_MAX
       => m' = [m EXCEPT !.btn_press_time = U8_FF]
  /\ ~m.mtbbus_auto_speed_in_progress /\ m'.mtbbus_auto_speed_in_progress
       => C17_LongPress /\ hist.silent = MTBBUS_TIMEOUT_MAX

\* C17: the long press starts the autodetection, at the minimum speed, if
\* MTBBUS_TIMEOUT_MAX ticks or more have passed since the dispatcher
\* accepted a frame, or it never accepted one; if fewer ticks have passed
\* the long press changes nothing (but the latch of the hold counter); and
\* the autodetection starts in no other way.
C17_LongPressStartsWhenSilent == [][C17_Step]_vars

\* C17 happens: the long press fired 99 ticks after a frame was accepted
\* and started nothing
C17_Witness ==
  /\ btn.longs = 1
  /\ m.btn_press_time = U8_FF
  /\ hist.silent = MTBBUS_TIMEOUT_MAX - 1
  /\ ~m.mtbbus_auto_speed_in_progress

---------------------------------------------------------------------------
(* The dispatcher while the transport still holds a response: the requests *)
(* of Spec, each also delivered while the output buffer is busy            *)

NextBusy ==
  \/ BusPolled /\ TIMER3_COMPA(FALSE)
  \/ MtbbusIdle
  \/ \E r \in AddrReqs : MtbbusReceive(r)
  \/ \E r \in AddrReqs : MtbbusReceiveBusy(r)
  \/ SentComplete
  \/ DebounceIdle
  \/ LoopTail

SpecBusy == Init /\ [][NextBusy]_vars

\* C18: a request dispatched while the transport cannot accept output
\* leaves the output buffer unwritten, has no response staged and no effect
\* applied: the globals are what they were before it.
C18_BusyDropsRequest ==
  last.valid /\ last.busy =>
    /\ last.buf = NoResp
    /\ last.sent = <<>>
    /\ last.log = <<>>
    /\ last.post = last.pre

---------------------------------------------------------------------------
(* C19: what a diagnostic read does to the tracker *)

RecognizedDiagIndices ==
  { MTBBUS_DV_VERSION, MTBBUS_DV_STATE, MTBBUS_DV_UPTIME, MTBBUS_DV_WARNINGS,
    MTBBUS_DV_VMCU, MTBBUS_DV_MTBBUS_RECEIVED, MTBBUS_DV_MTBBUS_BAD_CRC,
    MTBBUS_DV_MTBBUS_SENT, MTBBUS_DV_MTBBUS_UNSENT }

\* the latest dispatch was a DIAG_VALUE_REQ that carries an index
C19_DiagRead ==
  /\ last.valid /\ last.pre.initialized
  /\ last.req.command_code = "DIAG_VALUE_REQ"
  /\ Len(last.req.data) >= 1

\* inputs_old, last_input_changed, last_diag_changed, first_scan and
\* mtbbus_warn_flags_old are what they were before the request
C19_TrackerKept ==
  /\ last.post.inputs_old = last.pre.inputs_old
  /\ last.post.last_input_changed = last.pre.last_input_changed
  /\ last.post.last_diag_changed = last.pre.last_diag_changed
  /\ last.post.first_scan = last.pre.first_scan
  /\ last.post.mtbbus_warn_flags_old = last.pre.mtbbus_warn_flags_old

\* C19: a DIAG_VALUE_REQ for the warnings index or for an unrecognized
\* index makes the last-reported warning bitset equal to the live one; an
\* unrecognized index is answered with one DIAG_VALUE frame that carries
\* the index and no value; a DIAG_VALUE_REQ for any other recognized index
\* leaves the last-reported bitset and the tracker state unchanged.
C19_DiagReadAcknowledgesWarnings ==
  C19_DiagRead =>
    LET i == last.req.data[1]
    IN /\ (i = MTBBUS_DV_WARNINGS \/ i \notin RecognizedDiagIndices) =>
            /\ last.post.mtbbus_warn_flags_old = last.post.mtbbus_warn_flags
            /\ last.post.mtbbus_warn_flags = last.pre.mtbbus_warn_flags
       /\ i \notin RecognizedDiagIndices =>
            last.sent = << Frame(2, "DIAG_VALUE", <<i>>) >>
       /\ (i \in RecognizedDiagIndices /\ i # MTBBUS_DV_WARNINGS) =>
            C19_TrackerKept

\* an unrecognized index read while a warning was unreported, and a
\* recognized one that left it unreported
C19_Witness ==
  /\ C19_DiagRead
  /\ last.req.data[1] \notin RecognizedDiagIndices
  /\ last.pre.mtbbus_warn_flags # last.pre.mtbbus_warn_flags_old
  /\ last.post.mtbbus_warn_flags_old = last.post.mtbbus_warn_flags
  /\ last.sent = << Frame(2, "DIAG_VALUE", <<last.req.data[1]>>) >>

---------------------------------------------------------------------------
(* C20: the transport's speed against the persisted one *)

\* C20: whenever autodetection is not in progress, the speed the transport
\* is set to equals the persisted bus speed config_mtbbus_speed.
C20_SpeedIsPersistedSpeed ==
  ~m.mtbbus_auto_speed_in_progress => m.mtbbus_speed = m.config_mtbbus_speed

---------------------------------------------------------------------------
(* C21: speeds written by the bus, the button and autodetection *)

\* the payload byte of CHANGE_SPEED: the ends of the enumeration, the
\* value below it, the value above it and the largest byte
SpeedBytes ==
  { MTBBUS_SPEED_38400 - 1, MTBBUS_SPEED_38400, MTBBUS_SPEED_MAX,
    MTBBUS_SPEED_MAX + 1, U8_FF }

SpeedReqs ==
  { Req(bc, "CHANGE_SPEED", <<b>>) : bc \in BOOLEAN, b \in SpeedBytes }

NextSpeed ==
  \/ BusPolled /\ TIMER3_COMPA(FALSE)
  \/ MtbbusIdle
  \/ \E r \in SpeedReqs : ~m.btn_pressed /\ MtbbusReceive(r)
  \/ DebounceIdle
  \/ m.initialized /\ ~m.mtbbus_auto_speed_in_progress /\ BtnPress
  \/ \E strap \in {5} : BtnRelease(strap)
  \/ LoopTail
  \/ BtnFire

SpecSpeed == Init /\ [][NextSpeed]_vars

\* the speed autodetection is probing is one of the enumeration
C21_ProbedSpeedSupported ==
  m.mtbbus_auto_speed_in_progress => m.mtbbus_auto_speed_last \in Speeds

\* C21: the persisted bus speed and the speed being probed are always
\* members of MTBBUS_SPEED_38400 .. MTBBUS_SPEED_MAX, after any bus
\* requests (CHANGE_SPEED with any payload byte), button presses and
\* autodetect steps, when the configuration loaded at startup holds a
\* supported speed.
C21_SpeedsSupported ==
  /\ m.config_mtbbus_speed \in Speeds
  /\ C21_ProbedSpeedSupported

====
